---- MODULE Spec2Model ----
(***************************************************************************)
(* Model of vm/src/builtins/bytes.rs: the immutable bytes value (PyBytes), *)
(* its mapping / sequence / buffer tables, comparison, and the position    *)
(* iterator PyBytesIterator with its lock.                                 *)
(*                                                                         *)
(* Objects live in `heap`, a sequence of records; an object's id is its    *)
(* index.  Type objects have ids of their own (<= 0), so that identity     *)
(* tests between an instance and a type object can be expressed.           *)
(***************************************************************************)
EXTENDS Integers, Sequences, FiniteSets, TLC

VARIABLES heap, res, it, lock, pc, ret, log, calls

vars == <<heap, res, it, lock, pc, ret, log, calls>>

(* ------------------------------ bounds --------------------------------- *)
MaxLen == 2
MaxOther == 1
MaxCalls == 4
NThreads == 2

(* --------------------------- type objects ------------------------------ *)
bytes_type == 0
bytes_subtype == -1
memoryview_type == -2
int_type == -3

(* ------------------------------ helpers -------------------------------- *)
Min(a, b) == IF a < b THEN a ELSE b

Max(a, b) == IF a > b THEN a ELSE b

\* the u8 values used as element values
Byte == {0, 255}

ByteSeqs == UNION {[1..n -> Byte] : n \in 0..MaxLen}

ShortSeqs == UNION {[1..n -> Byte] : n \in 0..MaxOther}

\* IdProtocol::is : two references denote the same object
Is(a, b) == a = b

\* the runtime type of a heap object (TypeProtocol::class)
class(h, o) == h[o].cls

\* objects whose payload is PyBytes (the base type or a subclass of it)
IsBytesObj(h, o) == class(h, o) \in {bytes_type, bytes_subtype}

\* objects accepted as ArgBytesLike / readable through the buffer protocol
IsBytesLike(h, o) == class(h, o) \in {bytes_type, bytes_subtype, memoryview_type}

\* other.isinstance(&vm.ctx.types.memoryview_type)
IsMemoryview(h, o) == class(h, o) = memoryview_type

\* PyBytes::from(..).into_ref(vm) / vm.ctx.new_bytes(..): a new object of the
\* base bytes type holding the given elements
IntoRef(h, elements) == Append(h, [cls |-> bytes_type, elements |-> elements])

\* result values handed back to the caller
Ref(o) == [kind |-> "ref", val |-> o]
IntVal(n) == [kind |-> "int", val |-> n]
BoolVal(b) == [kind |-> "bool", val |-> b]
Err(name) == [kind |-> name, val |-> 0]
NotImplementedVal == [kind |-> "NotImplemented", val |-> 0]


(* ------------------- external algorithm library ------------------------ *)
RECURSIVE Repeat(_, _)
\* n copies of the elements, one after the other
Repeat(e, n) == IF n <= 0 THEN <<>> ELSE e \o Repeat(e, n - 1)

\* PyBytesInner::mul : repetition, a negative count behaves as 0
InnerMul(e, value) == Repeat(e, Max(value, 0))

\* PyBytesInner::add : concatenation of the two byte slices
InnerAdd(e, other) == e \o other

\* needle occurs in e as a contiguous subsequence
Occurs(e, needle) ==
    \E k \in 0..(Len(e) - Len(needle)) : SubSeq(e, k + 1, k + Len(needle)) = needle

\* PyBytesInner::contains over Either<PyBytesInner, PyIntRef>
InnerContains(e, needle) ==
    IF needle.kind = "bytes" THEN BoolVal(Occurs(e, needle.val))
    ELSE BoolVal(\E k \in 1..Len(e) : e[k] = needle.val)

RECURSIVE HashFrom(_, _)
HashFrom(e, acc) ==
    IF e = <<>> THEN acc ELSE HashFrom(Tail(e), (acc * 31 + Head(e) + 1) % 65536)

\* PyBytesInner::hash : a pure function of the content
InnerHash(e) == HashFrom(e, 0)

RECURSIVE SeqLess(_, _)
\* lexicographic order on byte slices
SeqLess(a, b) ==
    IF b = <<>> THEN FALSE
    ELSE IF a = <<>> THEN TRUE
    ELSE IF Head(a) # Head(b) THEN Head(a) < Head(b)
    ELSE SeqLess(Tail(a), Tail(b))

CmpOps == {"Eq", "Ne", "Lt", "Le", "Gt", "Ge"}

\* PyComparisonOp::eval_ord on two byte slices
EvalOrd(op, a, b) ==
    CASE op = "Eq" -> a = b
      [] op = "Ne" -> a # b
      [] op = "Lt" -> SeqLess(a, b)
      [] op = "Le" -> ~SeqLess(b, a)
      [] op = "Gt" -> SeqLess(b, a)
      [] op = "Ge" -> ~SeqLess(a, b)

\* PyBytesInner::cmp : byte-wise comparison, NotImplemented when other is
\* not byte-sequence-like
InnerCmp(h, e, other, op) ==
    IF IsBytesLike(h, other) THEN BoolVal(EvalOrd(op, e, h[other].elements))
    ELSE NotImplementedVal

\* PyComparisonOp::identical_optimization : <<r>> when the two references are
\* the same object (== and reflexive orderings true, the others false),
\* <<>> otherwise
IdenticalOptimization(op, zelf, other) ==
    IF Is(zelf, other) THEN <<op \in {"Eq", "Le", "Ge"}>> ELSE <<>>

\* SliceableSequenceOp::get_item_by_index : negative-index wraparound, then
\* the element, or an index error when out of bounds
GetItemByIndex(e, i) ==
    LET w == IF i < 0 THEN i + Len(e) ELSE i
    IN  IF 0 <= w /\ w < Len(e) THEN [ok |-> TRUE, val |-> e[w + 1]]
        ELSE [ok |-> FALSE, val |-> 0]

RECURSIVE SliceWalk(_, _, _, _)
\* the elements visited from index i towards stop by step
SliceWalk(e, i, stop, step) ==
    IF (step > 0 /\ i >= stop) \/ (step < 0 /\ i <= stop) THEN <<>>
    ELSE <<e[i + 1]>> \o SliceWalk(e, i + step, stop, step)

\* a slice bound wrapped and clamped for the given step direction
SliceBound(n, b, step, dflt) ==
    IF b = <<>> THEN dflt
    ELSE LET w == IF b[1] < 0 THEN b[1] + n ELSE b[1]
         IN  IF step > 0 THEN Max(0, Min(w, n)) ELSE Max(-1, Min(w, n - 1))

\* SliceableSequenceOp::get_item_by_slice : start/stop/step selection with
\* clamped bounds; an absent field is <<>>
GetItemBySlice(e, slice) ==
    LET n     == Len(e)
        step  == IF slice.step = <<>> THEN 1 ELSE slice.step[1]
        start == SliceBound(n, slice.start, step, IF step > 0 THEN 0 ELSE n - 1)
        stop  == SliceBound(n, slice.stop, step, IF step > 0 THEN n ELSE -1)
    IN  SliceWalk(e, start, stop, step)

(* ----------------------------- PyBytes ---------------------------------- *)
\* what a handler hands back: the heap after it and the value returned
Done(h, out) == [heap |-> h, out |-> out]

\* PyBytes::len
len(h, zelf) == Len(h[zelf].elements)

\* PyBytes::bytes (__bytes__): the receiver itself when `zelf.is(bytes_type)`,
\* a new base-type value otherwise; `zelf` is the instance reference and
\* bytes_type the type object
bytes(h, zelf) ==
    IF Is(zelf, bytes_type) THEN Done(h, Ref(zelf))
    ELSE Done(IntoRef(h, h[zelf].elements), Ref(Len(h) + 1))

\* add that extends the receiver in place, as a mutable buffer's += would
addInPlace(h, zelf, other) ==
    Done([h EXCEPT ![zelf].elements = @ \o h[other].elements], Ref(zelf))

\* PyBytes::add (__add__): Vec<u8> turned into a new bytes object
add(h, zelf, other) ==
    Done(IntoRef(h, InnerAdd(h[zelf].elements, h[other].elements)), Ref(Len(h) + 1))

\* PyBytes::contains (__contains__)
contains(h, zelf, needle) == Done(h, InnerContains(h[zelf].elements, needle))

\* PyBytes::_getitem : an integer for an index, a new bytes for a slice
getitem(h, zelf, needle) ==
    IF needle.kind = "int"
    THEN LET r == GetItemByIndex(h[zelf].elements, needle.val)
         IN  IF r.ok THEN Done(h, IntVal(r.val)) ELSE Done(h, Err("IndexError"))
    ELSE Done(IntoRef(h, GetItemBySlice(h[zelf].elements, needle.val)), Ref(Len(h) + 1))

\* PyBytes::title and the other transformation methods: the library's result
\* x wrapped as a new bytes object
title(h, zelf, x) == Done(IntoRef(h, x), Ref(Len(h) + 1))

\* mul without the exact-type test of the special case
mulAnyClass(h, zelf, value) ==
    IF value = 1 THEN Done(h, Ref(zelf))
    ELSE Done(IntoRef(h, InnerMul(h[zelf].elements, value)), Ref(Len(h) + 1))

\* PyBytes::mul (__mul__ / __rmul__)
mul(h, zelf, value) ==
    IF value = 1 /\ Is(class(h, zelf), bytes_type) THEN Done(h, Ref(zelf))
    ELSE Done(IntoRef(h, InnerMul(h[zelf].elements, value)), Ref(Len(h) + 1))

\* PyBytes::getnewargs : a tuple holding one integer object per byte
getnewargs(h, zelf) ==
    LET e == h[zelf].elements
    IN  Done(h, [kind |-> "tuple", val |-> [k \in 1..Len(e) |-> IntVal(e[k])]])

\* PyBytes::reduce / reduce_ex : (class of self, (fresh base bytes copy,), dict)
reduce(h, zelf) ==
    Done(IntoRef(h, h[zelf].elements),
         [kind |-> "tuple",
          val |-> <<[kind |-> "type", val |-> class(h, zelf)],
                    [kind |-> "tuple", val |-> <<Ref(Len(h) + 1)>>],
                    [kind |-> "dict", val |-> 0]>>])

\* MAPPING_METHODS.length
MappingLength(h, zelf) == Done(h, IntVal(len(h, zelf)))

\* MAPPING_METHODS.subscript
MappingSubscript(h, zelf, needle) == getitem(h, zelf, needle)

\* MAPPING_METHODS.ass_subscript is None: the object model finds no entry and
\* reports that the type does not support item assignment
MappingAssSubscript(h, zelf, i, value) == Done(h, Err("TypeError"))

\* BUFFER_METHODS / AsBuffer::as_buffer : a read-only simple descriptor
as_buffer(h, zelf) ==
    Done(h, [kind |-> "buffer",
             val |-> [obj |-> zelf, len |-> len(h, zelf), readonly |-> TRUE]])

\* BUFFER_METHODS.obj_bytes : the bytes of the exporting object
obj_bytes(h, buffer) == Done(h, [kind |-> "slice", val |-> h[buffer.obj].elements])

\* BUFFER_METHODS.obj_bytes_mut : panics
obj_bytes_mut(h, buffer) == Done(h, Err("panic"))

\* SEQUENCE_METHODS.length
SequenceLength(h, zelf) == Done(h, IntVal(len(h, zelf)))

\* SEQUENCE_METHODS.concat : type error unless other is bytes-like
SequenceConcat(h, zelf, other) ==
    IF IsBytesLike(h, other)
    THEN Done(IntoRef(h, h[zelf].elements \o h[other].elements), Ref(Len(h) + 1))
    ELSE Done(h, Err("TypeError"))

\* SEQUENCE_METHODS.repeat : <[u8]>::repeat(n), always a new object
SequenceRepeat(h, zelf, n) ==
    Done(IntoRef(h, Repeat(h[zelf].elements, n)), Ref(Len(h) + 1))

\* item wrapping the byte as an integer, as the mapping subscript does
SequenceItemAsInt(h, zelf, i) == getitem(h, zelf, [kind |-> "int", val |-> i])

\* SEQUENCE_METHODS.item : a new bytes of length 1
SequenceItem(h, zelf, i) ==
    LET r == GetItemByIndex(h[zelf].elements, i)
    IN  IF r.ok THEN Done(IntoRef(h, <<r.val>>), Ref(Len(h) + 1))
        ELSE Done(h, Err("IndexError"))

\* SEQUENCE_METHODS.contains : the operand converted to Either first
SequenceContains(h, zelf, other) ==
    IF other.kind \in {"bytes", "int"} THEN contains(h, zelf, other)
    ELSE Done(h, Err("TypeError"))

\* Hashable::hash
hash(h, zelf) == Done(h, IntVal(InnerHash(h[zelf].elements)))

\* cmp without the buffer-view rule
cmpNoViewRule(h, zelf, other, op) ==
    LET ident == IdenticalOptimization(op, zelf, other)
    IN  IF ident # <<>> THEN Done(h, BoolVal(ident[1]))
        ELSE Done(h, InnerCmp(h, h[zelf].elements, other, op))

\* Comparable::cmp
cmp(h, zelf, other, op) ==
    LET ident == IdenticalOptimization(op, zelf, other)
    IN  IF ident # <<>> THEN Done(h, BoolVal(ident[1]))
        ELSE IF IsMemoryview(h, other) /\ op # "Eq" /\ op # "Ne"
        THEN Done(h, Err("TypeError"))
        ELSE Done(h, InnerCmp(h, h[zelf].elements, other, op))

(* --------------------------- PyBytesIterator --------------------------- *)
NoIter == [status |-> "None", obj |-> 0, position |-> 0]

\* PositionIterInternal::new
PositionNew(obj, position) == [status |-> "Active", obj |-> obj, position |-> position]

\* iter starting one past the first element
iterAtOne(zelf) == PositionNew(zelf, 1)

\* Iterable::iter : a new iterator over zelf at position 0
iter(zelf) == PositionNew(zelf, 0)

\* the closure of IterNext::next : bytes.as_bytes().get(pos), as an integer
\* object, or the exhaustion signal
NextByte(e, pos) ==
    IF pos < Len(e) THEN [kind |-> "Return", val |-> e[pos + 1]]
    ELSE [kind |-> "StopIteration", val |-> 0]

\* PositionIterInternal::next, the value: the closure's result while active,
\* the exhaustion signal once exhausted
PositionNextRet(h, internal) ==
    IF internal.status = "Active"
    THEN NextByte(h[internal.obj].elements, internal.position)
    ELSE [kind |-> "StopIteration", val |-> 0]

\* PositionIterInternal::next, the state: advance by one after a byte, become
\* exhausted after the exhaustion signal
PositionNextUpdate(internal, r) ==
    IF internal.status # "Active" THEN internal
    ELSE IF r.kind = "Return"
    THEN [internal EXCEPT !.position = internal.position + 1]
    ELSE [internal EXCEPT !.status = "Exhausted"]

\* the closure without the upper clamp
SetstateNoClamp(e, pos) == pos

\* the closure clamping one past the supplied position
SetstateOffByOne(e, pos) == Min(pos + 1, Len(e))

\* the closure of PyBytesIterator::setstate : pos.min(obj.len())
SetstateClamp(e, pos) == Min(pos, Len(e))

\* set_state that makes the iterator active again
PositionSetStateRevive(h, internal, state) ==
    [internal EXCEPT !.status = "Active",
                     !.position = SetstateClamp(h[internal.obj].elements, Max(state, 0))]

\* PositionIterInternal::set_state : the supplied position, not below 0,
\* passed through the closure
PositionSetState(h, internal, state) ==
    [internal EXCEPT !.position = SetstateClamp(h[internal.obj].elements, Max(state, 0))]

\* the closure counting one element more than the source holds
LengthHintLenPlusOne(h, obj) == len(h, obj) + 1

\* the closure of PyBytesIterator::length_hint : obj.len()
LengthHintLen(h, obj) == len(h, obj)

\* PositionIterInternal::length_hint : the closure's length minus the position
PositionLengthHint(h, internal) == LengthHintLen(h, internal.obj) - internal.position

\* the closure of PyBytesIterator::reduce : the source object itself
ReduceSource(obj) == Ref(obj)

\* PositionIterInternal::builtins_iter_reduce : (iter, (source,), position)
PositionReduce(internal) ==
    [kind |-> "tuple",
     val |-> <<[kind |-> "builtin", val |-> "iter"],
               [kind |-> "tuple", val |-> <<ReduceSource(internal.obj)>>],
               IntVal(internal.position)>>]

\* a lock that never excludes anyone
CanLockAlways(l) == TRUE

\* PyMutex::lock succeeds only while no context holds the lock
CanLock(l) == l = 0

(* ------------------------------ inputs --------------------------------- *)
Threads == 1..NThreads

\* the two operand objects every state starts with
Operands == {1, 2}

\* objects the caller still holds from earlier results
Live(h) == DOMAIN h \ Operands

BytesObjs(h) == {o \in DOMAIN h : IsBytesObj(h, o)}

Needles ==
    [kind : {"bytes"}, val : ShortSeqs] \cup [kind : {"int"}, val : Byte]

Indexes == (0 - MaxLen - 1)..MaxLen

Slices ==
    [start : {<<>>, <<-1>>}, stop : {<<>>, <<1>>}, step : {<<>>, <<-1>>, <<2>>}]

Counts == -1..2

States == (-2)..(MaxLen + 2)

BytesInit == [cls : {bytes_type, bytes_subtype}, elements : ByteSeqs]

OtherInit ==
    [cls : {bytes_type, memoryview_type}, elements : ShortSeqs]
        \cup {[cls |-> int_type, elements |-> <<>>]}

NoRes == [op |-> "init", zelf |-> 0, arg |-> 0, out |-> Err("none")]

(* ------------------------- value operations ---------------------------- *)
NoRet == [ticket |-> 0, pos |-> 0, r |-> Err("none")]

\* no execution context is inside a call
Idle ==
    /\ lock = 0 /\ calls = 0 /\ log = <<>>
    /\ pc = [t \in Threads |-> "idle"] /\ ret = [t \in Threads |-> NoRet]

Init ==
    /\ \E x \in BytesInit, y \in OtherInit : heap = <<x, y>>
    /\ res = NoRes
    /\ it = NoIter
    /\ Idle

\* one call of a PyBytes handler: its heap and its result become the state
Call(op, zelf, arg, r) ==
    /\ Live(heap) = {} /\ it = NoIter
    /\ heap' = r.heap
    /\ res' = [op |-> op, zelf |-> zelf, arg |-> arg, out |-> r.out]
    /\ UNCHANGED <<it, lock, pc, ret, log, calls>>

Bytes == \E zelf \in BytesObjs(heap) : Call("bytes", zelf, 0, bytes(heap, zelf))

Add ==
    \E zelf \in BytesObjs(heap), other \in DOMAIN heap :
        /\ IsBytesLike(heap, other)
        /\ Call("add", zelf, other, add(heap, zelf, other))

Contains ==
    \E zelf \in BytesObjs(heap), needle \in Needles :
        Call("contains", zelf, needle, contains(heap, zelf, needle))

GetItem ==
    \E zelf \in BytesObjs(heap) :
        \/ \E i \in Indexes :
              Call("getitem", zelf, [kind |-> "int", val |-> i],
                   getitem(heap, zelf, [kind |-> "int", val |-> i]))
        \/ \E sl \in Slices :
              Call("getitem", zelf, [kind |-> "slice", val |-> sl],
                   getitem(heap, zelf, [kind |-> "slice", val |-> sl]))

Title ==
    \E zelf \in BytesObjs(heap), x \in ShortSeqs :
        Call("title", zelf, 0, title(heap, zelf, x))

Mul ==
    \E zelf \in BytesObjs(heap), value \in Counts :
        Call("mul", zelf, value, mul(heap, zelf, value))

GetNewArgs ==
    \E zelf \in BytesObjs(heap) : Call("getnewargs", zelf, 0, getnewargs(heap, zelf))

Reduce == \E zelf \in BytesObjs(heap) : Call("reduce", zelf, 0, reduce(heap, zelf))

Length ==
    \E zelf \in BytesObjs(heap) :
        \/ Call("mp_length", zelf, 0, MappingLength(heap, zelf))
        \/ Call("sq_length", zelf, 0, SequenceLength(heap, zelf))

Subscript ==
    \E zelf \in BytesObjs(heap), i \in Indexes :
        Call("subscript", zelf, [kind |-> "int", val |-> i],
             MappingSubscript(heap, zelf, [kind |-> "int", val |-> i]))

AssSubscript ==
    \E zelf \in BytesObjs(heap), i \in {-1, 0}, value \in Byte :
        Call("ass_subscript", zelf, <<i, value>>,
             MappingAssSubscript(heap, zelf, i, value))

AsBuffer == \E zelf \in BytesObjs(heap) : Call("as_buffer", zelf, 0, as_buffer(heap, zelf))

\* a borrower of the buffer exported last reads through it
ObjBytes ==
    /\ res.out.kind = "buffer"
    /\ Call("obj_bytes", res.zelf, res.out.val, obj_bytes(heap, res.out.val))

\* a borrower of the buffer exported last asks for write access
ObjBytesMut ==
    /\ res.out.kind = "buffer"
    /\ Call("obj_bytes_mut", res.zelf, res.out.val, obj_bytes_mut(heap, res.out.val))

Concat ==
    \E zelf \in BytesObjs(heap), other \in DOMAIN heap :
        Call("concat", zelf, other, SequenceConcat(heap, zelf, other))

RepeatSeq ==
    \E zelf \in BytesObjs(heap), n \in 0..2 :
        Call("repeat", zelf, n, SequenceRepeat(heap, zelf, n))

Item ==
    \E zelf \in BytesObjs(heap), i \in Indexes :
        Call("item", zelf, i, SequenceItem(heap, zelf, i))

SeqContains ==
    \E zelf \in BytesObjs(heap), other \in Needles \cup {[kind |-> "str", val |-> 0]} :
        Call("sq_contains", zelf, other, SequenceContains(heap, zelf, other))

Hash == \E zelf \in BytesObjs(heap) : Call("hash", zelf, 0, hash(heap, zelf))

Cmp ==
    \E zelf \in BytesObjs(heap), other \in DOMAIN heap, op \in CmpOps :
        Call("cmp", zelf, <<other, op>>, cmp(heap, zelf, other, op))

\* the caller lets go of the object returned earlier
Release ==
    /\ Live(heap) # {}
    /\ heap' = SubSeq(heap, 1, Len(heap) - 1)
    /\ res' = NoRes
    /\ UNCHANGED <<it, lock, pc, ret, log, calls>>

(* ------------------------ iterator operations -------------------------- *)
\* one call on the iterator by a single execution context: the lock is taken
\* and released inside the call
IterCall(op, arg, internal, out) ==
    /\ it # NoIter /\ CanLock(lock)
    /\ it' = internal
    /\ res' = [op |-> op, zelf |-> it.obj, arg |-> arg, out |-> out]
    /\ UNCHANGED <<heap, lock, pc, ret, log, calls>>

\* Iterable::iter
Iter ==
    \E zelf \in BytesObjs(heap) :
        /\ Live(heap) = {} /\ it = NoIter
        /\ it' = iter(zelf)
        /\ res' = [op |-> "iter", zelf |-> zelf, arg |-> 0,
                   out |-> [kind |-> "iterator", val |-> 0]]
        /\ UNCHANGED <<heap, lock, pc, ret, log, calls>>

\* IterNext::next
IterNext ==
    LET r == PositionNextRet(heap, it)
    IN  IterCall("next", 0, PositionNextUpdate(it, r), r)

\* PyBytesIterator::setstate
SetState ==
    \E state \in States :
        IterCall("setstate", state, PositionSetState(heap, it, state),
                 [kind |-> "None", val |-> 0])

\* PyBytesIterator::length_hint
LengthHint == IterCall("length_hint", 0, it, IntVal(PositionLengthHint(heap, it)))

\* PyBytesIterator::reduce
IterReduce == IterCall("iter_reduce", 0, it, PositionReduce(it))

\* the caller lets go of the iterator
DropIter ==
    /\ it # NoIter
    /\ it' = NoIter
    /\ res' = NoRes
    /\ UNCHANGED <<heap, lock, pc, ret, log, calls>>

Next ==
    \/ Bytes \/ Add \/ Contains \/ GetItem \/ Title \/ Mul \/ GetNewArgs \/ Reduce
    \/ Length \/ Subscript \/ AssSubscript \/ AsBuffer \/ ObjBytes \/ ObjBytesMut
    \/ Concat \/ RepeatSeq \/ Item \/ SeqContains \/ Hash \/ Cmp \/ Release
    \/ Iter \/ IterNext \/ SetState \/ LengthHint \/ IterReduce \/ DropIter

Spec == Init /\ [][Next]_vars

(* --------------- concurrent next calls on one iterator ----------------- *)
Pending == [kind |-> "pending", val |-> 0, pos |-> 0, by |-> 0]

InitConc ==
    /\ \E x \in BytesInit : heap = <<x>>
    /\ res = NoRes
    /\ it = iter(1)
    /\ Idle

\* zelf.internal.lock() : the context enters next and takes the lock; its
\* call is the calls-th to do so
NextLock(t) ==
    /\ pc[t] = "idle" /\ calls < MaxCalls
    /\ CanLock(lock)
    /\ lock' = t
    /\ calls' = calls + 1
    /\ log' = Append(log, Pending)
    /\ ret' = [ret EXCEPT ![t] = [ticket |-> calls + 1, pos |-> 0, r |-> Err("none")]]
    /\ pc' = [pc EXCEPT ![t] = "locked"]
    /\ UNCHANGED <<heap, res, it>>

\* the closure reads the byte at the current position
NextRead(t) ==
    /\ pc[t] = "locked"
    /\ ret' = [ret EXCEPT ![t].r = PositionNextRet(heap, it), ![t].pos = it.position]
    /\ pc' = [pc EXCEPT ![t] = "read"]
    /\ UNCHANGED <<heap, res, it, lock, log, calls>>

\* the position is advanced, or the iterator becomes exhausted
NextAdvance(t) ==
    /\ pc[t] = "read"
    /\ it' = PositionNextUpdate(it, ret[t].r)
    /\ pc' = [pc EXCEPT ![t] = "advanced"]
    /\ UNCHANGED <<heap, res, ret, lock, log, calls>>

\* the guard is dropped and the value handed to the caller
NextUnlock(t) ==
    /\ pc[t] = "advanced"
    /\ lock' = 0
    /\ log' = [log EXCEPT ![ret[t].ticket] =
                   [kind |-> ret[t].r.kind, val |-> ret[t].r.val,
                    pos |-> ret[t].pos, by |-> t]]
    /\ pc' = [pc EXCEPT ![t] = "idle"]
    /\ UNCHANGED <<heap, res, it, ret, calls>>

NextConc ==
    \E t \in Threads : NextLock(t) \/ NextRead(t) \/ NextAdvance(t) \/ NextUnlock(t)

SpecConc == InitConc /\ [][NextConc]_vars

(* ------------------------------ claims --------------------------------- *)
\* the source length of the iterator's object
SrcLen == len(heap, it.obj)

RECURSIVE Drain(_, _)
\* the bytes repeated next calls yield from the given iterator state
Drain(h, internal) ==
    LET r == PositionNextRet(h, internal)
    IN  IF r.kind = "Return" THEN <<r.val>> \o Drain(h, PositionNextUpdate(internal, r))
        ELSE <<>>

\* C1: multiplying by 1 returns the receiver itself when its type is exactly
\* the base bytes type, and a distinct object of equal content when it is an
\* instance of a subclass.
C1_MulIdentity ==
    (res.op = "mul" /\ res.arg = 1) =>
        /\ res.out.kind = "ref"
        /\ IF class(heap, res.zelf) = bytes_type
           THEN res.out.val = res.zelf
           ELSE /\ res.out.val # res.zelf
                /\ heap[res.out.val].elements = heap[res.zelf].elements

C1_Witness ==
    /\ res.op = "mul" /\ res.arg = 1
    /\ class(heap, res.zelf) = bytes_type
    /\ heap[res.zelf].elements # <<>>
    /\ res.out = Ref(res.zelf)

\* C2: concurrent next calls do not race: at most one context is inside next
\* at a time, and the k-th call to take the lock reads position k-1 and
\* returns its byte while k is within the source, and the exhaustion signal
\* after that.
C2_NoRace ==
    /\ Cardinality({t \in Threads : pc[t] # "idle"}) <= 1
    /\ \A k \in 1..Len(log) :
          log[k].kind # "pending" =>
              IF k <= len(heap, 1)
              THEN /\ log[k].kind = "Return"
                   /\ log[k].pos = k - 1
                   /\ log[k].val = heap[1].elements[k]
              ELSE log[k].kind = "StopIteration"

C2_Witness ==
    /\ len(heap, 1) = 2
    /\ Len(log) = 4
    /\ \A k \in 1..4 : log[k].kind # "pending"
    /\ log[1].by # log[2].by
    /\ log[3].by # log[4].by

\* C3: exhausted is terminal: a next that signals exhaustion leaves the
\* iterator exhausted, no later call on it makes it active again, and every
\* next on an exhausted iterator signals exhaustion and keeps the position.
C3_ExhaustedTerminal ==
    [][/\ (res'.op = "next" /\ res'.out.kind = "StopIteration")
            => it'.status = "Exhausted"
       /\ (it.status = "Exhausted" /\ it' # NoIter) => it'.status = "Exhausted"
       /\ (it.status = "Exhausted" /\ res'.op = "next")
            => (res'.out.kind = "StopIteration" /\ it'.position = it.position)]_vars

C3_Witness ==
    /\ res.op = "next" /\ res.out.kind = "StopIteration"
    /\ it.status = "Exhausted"
    /\ it.position < SrcLen

\* C4: the position stays within 0..length of the source; a next that yields
\* yields the byte at the position and advances it by one, and a next that
\* signals exhaustion keeps the position.
C4_CursorInvariant ==
    /\ [](it # NoIter => (0 <= it.position /\ it.position <= SrcLen))
    /\ [][res'.op = "next" =>
            IF res'.out.kind = "Return"
            THEN /\ it.position < SrcLen
                 /\ res'.out.val = heap[it.obj].elements[it.position + 1]
                 /\ it'.position = it.position + 1
            ELSE /\ res'.out.kind = "StopIteration"
                 /\ it'.position = it.position]_vars

C4_Witness ==
    /\ res.op = "next" /\ res.out.kind = "Return"
    /\ SrcLen = 2 /\ it.position = SrcLen

C6_RoundTrip ==
    (res.op = "iter_reduce" /\ it.status = "Active") =>
        LET src   == res.out.val[2].val[1].val
            pos   == res.out.val[3].val
            fresh == PositionSetState(heap, iter(src), pos)
        IN  /\ Drain(heap, fresh) = Drain(heap, it)
            /\ Drain(heap, it) = SubSeq(heap[it.obj].elements, it.position + 1, SrcLen)

C6_Witness ==
    /\ res.op = "iter_reduce" /\ it.status = "Active"
    /\ 0 < it.position /\ it.position < SrcLen

\* C7: comparing with a buffer-view value: the four ordering operators fail
\* with a type error, == and != are decided by content equality.
C7_ViewComparison ==
    (res.op = "cmp" /\ IsMemoryview(heap, res.arg[1])) =>
        LET same == heap[res.zelf].elements = heap[res.arg[1]].elements
        IN  CASE res.arg[2] = "Eq" -> res.out = BoolVal(same)
              [] res.arg[2] = "Ne" -> res.out = BoolVal(~same)
              [] OTHER -> res.out.kind = "TypeError"

C7_Witness ==
    /\ res.op = "cmp" /\ IsMemoryview(heap, res.arg[1])
    /\ res.arg[2] = "Lt"
    /\ heap[res.zelf].elements = heap[res.arg[1]].elements
    /\ heap[res.zelf].elements # <<>>
    /\ res.out.kind = "TypeError"

\* the index after negative-index wraparound
Wrapped(e, i) == IF i < 0 THEN i + Len(e) ELSE i

\* C8: for an index in bounds after wraparound the sequence item is a new
\* bytes of length 1 holding that byte, and the mapping subscript and
\* __getitem__ give the byte as an integer; out of bounds all give an index
\* error.
C8_ItemVersusSubscript ==
    LET e == heap[res.zelf].elements
    IN  /\ res.op = "item" =>
              LET w == Wrapped(e, res.arg)
              IN  IF 0 <= w /\ w < Len(e)
                  THEN /\ res.out.kind = "ref"
                       /\ class(heap, res.out.val) = bytes_type
                       /\ heap[res.out.val].elements = <<e[w + 1]>>
                  ELSE res.out.kind = "IndexError"
        /\ (res.op \in {"subscript", "getitem"} /\ res.arg.kind = "int") =>
              LET w == Wrapped(e, res.arg.val)
              IN  IF 0 <= w /\ w < Len(e)
                  THEN res.out = IntVal(e[w + 1])
                  ELSE res.out.kind = "IndexError"

C8_Witness ==
    /\ res.op = "item" /\ res.arg = -1
    /\ Len(heap[res.zelf].elements) = 2
    /\ res.out.kind = "ref"
    /\ heap[res.out.val].elements = <<heap[res.zelf].elements[2]>>

\* C9: no operation changes the elements of an existing object; a returned
\* reference is a new object, except for the receiver returned by mul and
\* __bytes__; subscript assignment is unsupported and the buffer's mutable
\* accessor aborts.
C9_Immutable ==
    [][/\ \A o \in DOMAIN heap \cap DOMAIN heap' : heap'[o] = heap[o]
       /\ (res'.out.kind = "ref" /\ res'.out.val \in DOMAIN heap)
            => (res'.op \in {"mul", "bytes"} /\ res'.out.val = res'.zelf)
       /\ (res'.op = "ass_subscript" => res'.out.kind = "TypeError")
       /\ (res'.op = "obj_bytes_mut" => res'.out.kind = "panic")]_vars

C9_Witness ==
    /\ res.op = "add"
    /\ heap[res.zelf].elements # <<>>
    /\ heap[res.arg].elements # <<>>
    /\ res.out.kind = "ref" /\ res.out.val # res.zelf
    /\ heap[res.out.val].elements = heap[res.zelf].elements \o heap[res.arg].elements

\* C10: getnewargs returns a tuple of exactly one element, a sequence
\* mirroring the bytes.
C10_GetNewArgsSingle ==
    res.op = "getnewargs" =>
        /\ Len(res.out.val) = 1
        /\ res.out.val[1].kind = "seq"
        /\ res.out.val[1].val = heap[res.zelf].elements

\* C11: length_hint returns the source length minus the position, never a
\* negative number, and leaves the iterator as it is; over the empty value
\* every next signals exhaustion, so the hint is 0 before and after it.
C11_LengthHint ==
    /\ [](res.op = "length_hint" =>
            /\ res.out.kind = "int"
            /\ res.out.val = SrcLen - it.position
            /\ res.out.val >= 0)
    /\ [][res'.op = "length_hint" => it' = it]_vars
    /\ [][(res'.op = "next" /\ SrcLen = 0) =>
            (res'.out.kind = "StopIteration" /\ it'.position = 0)]_vars

C11_Witness ==
    /\ res.op = "length_hint" /\ res.out = IntVal(0)
    /\ SrcLen = 0
    /\ it.status = "Exhausted"

\* C12: __bytes__ returns the receiver itself when its type is exactly the
\* base bytes type, and a new base-type object of equal content when it is an
\* instance of a subclass.
C12_BytesIdentity ==
    res.op = "bytes" =>
        /\ res.out.kind = "ref"
        /\ IF class(heap, res.zelf) = bytes_type
           THEN res.out.val = res.zelf
           ELSE /\ res.out.val # res.zelf
                /\ class(heap, res.out.val) = bytes_type
                /\ heap[res.out.val].elements = heap[res.zelf].elements

====
